---- MODULE Spec2Model ----
(***************************************************************************)
(* Model of the live translation service: the session orchestrator and    *)
(* the receive loop of the websocket endpoint, the utterance segmenter     *)
(* with its voice activity counters, the pipelined batch queue, the        *)
(* playback scheduler and the translation context buffer                  *)
(* (src/app/main.py, src/app/pipeline/*.py,                                *)
(* src/app/components/vad_detector.py).                                    *)
(*                                                                         *)
(* The program runs on one asyncio event loop: a coroutine runs without    *)
(* interruption until it awaits something that suspends it.  Every action  *)
(* below is one such uninterrupted run, from one suspension point of the   *)
(* code to the next.                                                       *)
(***************************************************************************)
EXTENDS Integers, Sequences, FiniteSets, TLC

\* ------------------------------------------------------------------ bounds

\* Utterances handed to add_batch during one session.
NumUtterances == 3
\* Longest audio duration (clock ticks) a synthesized batch may have.
MaxDuration == 2
\* Largest configured value of context_window that is explored.
MaxWindow == 2
\* Largest configured value of context_max_chars that is explored.
MaxChars == 3
\* Longest sentence (characters) handed to add_sentence.
MaxSentenceLen == 2
\* Audio messages handled by process_audio during one run.
MaxFrames == 4
\* Last reading of the wall clock (ticks) that is explored.
MaxClock == 3
\* Largest configured phrase duration (ticks) that is explored.
MaxChunk == 2
\* Largest configured silence threshold (frames) that is explored.
MaxSilenceFrames == 2
\* Largest configured minimum utterance length (frames) that is explored.
MaxMinSamples == 3
\* stop_session calls made during one run.
MaxStops == 2

\* ------------------------------------------------------- program constants

\* pipeline.batch_queue_size when the configuration does not set it.
DefaultQueueSize == 3
\* pipeline.min_ready_chunks_before_start when the configuration does not set it.
DefaultPrebuffer == 3
\* int(min_silence_duration * 10) of the latency profile, whose pause is 0.15 s.
LiteralSilenceFrames == 1

Utterances == 1..NumUtterances

\* The three stage gates, in pipeline order.
Stages == <<"stt", "translation", "tts">>
StageSet == {"stt", "translation", "tts"}

\* ------------------------------------------------------------------- state

VARIABLES
    \* configuration (read once by the constructors)
    max_concurrent_batches,        \* pipeline.batch_queue_size
    min_ready_chunks_before_start, \* pipeline.min_ready_chunks_before_start
    window_size,                   \* pipeline.context_window
    max_chars,                     \* pipeline.context_max_chars
    fifoGates,                     \* TRUE: the semaphores grant in arrival order
    \* BatchQueue
    pipeline_semaphore,            \* free admission slots (Semaphore._value)
    processing_count,
    ready_queue,                   \* FIFO of utterances ready for playback
    is_running,
    playback_started,
    batches_processed,             \* MetricsCollector.batches_processed
    gateHolder,                    \* stage -> utterance inside the gate, 0: free
    gateWaiters,                   \* stage -> utterances waiting, arrival order
    \* one background task per utterance
    submitted,                     \* add_batch calls that have returned
    pc,                            \* utterance -> position of its task
    language,                      \* utterance -> detected language
    duration,                      \* utterance -> audio duration of its batch
    \* playback loop
    schedPc,
    current,                       \* batch taken from ready_queue, 0: none
    sleepLeft,                     \* ticks the duration sleep still has to run
    \* ContextBuffer
    buffer,
    lastContext,                   \* what the last get_context returned
    \* observation (history) variables
    released,                      \* utterance -> releases of its admission slot
    called,                        \* utterance -> stages whose collaborator was called
    result,                        \* utterance -> how its task ended
    playOrder,                     \* utterances in the order they were dequeued
    played,                        \* utterances whose duration sleep completed
    sinceEmit,                     \* ticks since the current batch's emission began
    slack,                         \* ticks by which the last completed playback
                                   \* outlasted the duration of its batch
    startedBuffered,               \* the prebuffer wait ended on a full prebuffer
    cancelled,                     \* batch in playback when stop cancelled the loop, 0: none
    \* Orchestrator and the receive loop of websocket_endpoint
    session_active,
    batch_queue,                   \* "None" or "BatchQueue"
    stream_processor,              \* "None" or the class of the segmenter
    audio_errors,                  \* metrics.errors["audio_processing"]
    recvPc,                        \* position of the receive loop
    connected,                     \* the client has not disconnected
    \* configuration of the segmenter (pipeline.vad)
    min_chunk_duration,            \* ticks
    max_phrase_duration,           \* ticks
    min_silence_frames,            \* int(vad.min_silence_duration * 10)
    min_samples,                   \* int(min_speech_duration * sample_rate), in frames
    \* StreamProcessor / LiteralStreamProcessor and their VADDetector
    now,                           \* time.time(), in ticks
    phrase_start_time,             \* None, or the clock reading at the first speech
    current_phrase,                \* frames accumulated for the open utterance
    speech_frames,
    silence_frames,
    \* observation (history) variables of the intake
    stopCalls,                     \* stop_session calls that have returned
    audioCalls,                    \* process_audio calls that have returned
    finalized,                     \* utterances finalized by the segmenter
    pattern,                       \* shape of the frame classifications so far
    lastFrame,                     \* class of the last frame the segmenter took
    lastCut,                       \* branch that closed an utterance on that frame
    \* the topic of the session
    topic,                         \* BatchQueue.topic, the hint given to translate
    startRequest,                  \* topic of the last start request handled
    \* a LiteralStreamProcessor fed the frames of the session's StreamProcessor
    twin,
    \* the playback loop of a batch queue that start_session replaced
    orphan

cfgVars == <<max_concurrent_batches, min_ready_chunks_before_start, window_size,
             max_chars, fifoGates>>
queueVars == <<pipeline_semaphore, processing_count, ready_queue, is_running,
               playback_started, batches_processed, gateHolder, gateWaiters>>
taskVars == <<submitted, pc, language, duration>>
schedVars == <<schedPc, current, sleepLeft>>
ctxVars == <<buffer, lastContext>>
obsVars == <<released, called, result, playOrder, played, sinceEmit, slack,
             startedBuffered, cancelled>>
orchVars == <<session_active, batch_queue, stream_processor, audio_errors>>
linkVars == <<recvPc, connected>>
segCfgVars == <<min_chunk_duration, max_phrase_duration, min_silence_frames,
                min_samples>>
segVars == <<now, phrase_start_time, current_phrase, speech_frames,
             silence_frames>>
intakeObsVars == <<stopCalls, audioCalls, finalized, pattern>>
cutVars == <<lastFrame, lastCut>>
reqVars == <<topic, startRequest>>
sideVars == <<twin, orphan>>
intakeVars == <<orchVars, linkVars, segCfgVars, segVars, intakeObsVars,
                cutVars, reqVars, sideVars>>
vars == <<cfgVars, queueVars, taskVars, schedVars, ctxVars, obsVars,
          intakeVars>>

\* phrase_start_time of a segmenter that has no open utterance.
None == -1

\* ----------------------------------------------------------- ContextBuffer

\* A sentence is <<utterance, number of characters>>; len(s) is its second part.
SentenceLen(s) == s[2]

RECURSIVE TotalChars(_)
TotalChars(ctx) ==
    IF ctx = <<>> THEN 0 ELSE SentenceLen(Head(ctx)) + TotalChars(Tail(ctx))

\* Mutant: a deque built without maxlen never drops its oldest entry.
DequeAppendUnbounded(buf, s) == Append(buf, s)

\* deque(maxlen=window_size).append: the oldest entry falls out when full.
DequeAppend(buf, s) ==
    IF window_size = 0 THEN <<>>
    ELSE IF Len(buf) >= window_size THEN Append(Tail(buf), s)
    ELSE Append(buf, s)

\* add_sentence: append under the lock.
AddSentence(buf, s) == DequeAppend(buf, s)

\* Mutant: an `if` in place of the `while`: at most one entry is dropped.
TrimToBudgetOnce(ctx) ==
    IF TotalChars(ctx) > max_chars /\ Len(ctx) > 0 THEN Tail(ctx) ELSE ctx

\* The trimming loop of get_context: pop from the front while over budget.
RECURSIVE TrimToBudget(_)
TrimToBudget(ctx) ==
    IF TotalChars(ctx) > max_chars /\ Len(ctx) > 0
    THEN TrimToBudget(Tail(ctx))
    ELSE ctx

\* get_context: a copy of the buffer, trimmed to the character budget.
GetContext(buf) == TrimToBudget(buf)


\* ------------------------------------------------------------- stage gates

WaitPc == [stt |-> "wait_stt", translation |-> "wait_translation",
           tts |-> "wait_tts"]

\* Mutant: one lock for the three stages.
CanEnterExclusive(g) ==
    \A h \in StageSet : gateHolder[h] = 0 /\ gateWaiters[h] = <<>>

\* Mutant: the collaborator is called without looking at the gate.
CanEnterUnguarded(g) == TRUE

\* Semaphore.acquire without waiting: the gate is free and nobody queues for it.
CanEnter(g) ==
    gateHolder[g] = 0 /\ (fifoGates => gateWaiters[g] = <<>>)

\* Mutant: the gate goes to the waiter that arrived last.
GrantedLast(g) ==
    IF g # "none" /\ fifoGates /\ gateWaiters[g] # <<>>
    THEN gateWaiters[g][Len(gateWaiters[g])] ELSE 0

\* Semaphore.release: the waiter that receives gate g, 0 when none does.  A FIFO
\* semaphore hands the gate to its longest waiter; otherwise the gate is only
\* marked free and waiters and newcomers race for it (GateWake, CanEnter).
Granted(g) ==
    IF g # "none" /\ fifoGates /\ gateWaiters[g] # <<>>
    THEN Head(gateWaiters[g]) ELSE 0

RemoveFrom(seq, u) == SelectSeq(seq, LAMBDA x : x # u)

\* One uninterrupted run of task u that leaves gate `from` ("none": it holds no
\* gate) and then asks for gate `to` ("none": it asks for no gate and goes to
\* endPc).  `from` and `to` differ.  Entering the translation gate takes the
\* context snapshot (get_context) before the collaborator is awaited.
GateStep(u, from, to, endPc) ==
    LET w == Granted(from)
        enters == to # "none" /\ CanEnter(to)
        queues == to # "none" /\ ~CanEnter(to)
    IN  /\ gateHolder' = [s \in StageSet |->
               IF s = from THEN w
               ELSE IF s = to /\ enters THEN u
               ELSE gateHolder[s]]
        /\ gateWaiters' = [s \in StageSet |->
               IF s = from /\ w # 0 THEN RemoveFrom(gateWaiters[s], w)
               ELSE IF s = to /\ queues THEN Append(gateWaiters[s], u)
               ELSE gateWaiters[s]]
        /\ pc' = [v \in Utterances |->
               IF v = u THEN (IF enters THEN to ELSE IF queues THEN WaitPc[to]
                              ELSE endPc)
               ELSE IF v = w THEN from
               ELSE pc[v]]
        /\ called' = [v \in Utterances |->
               IF v = u /\ enters THEN called[v] \cup {to}
               ELSE IF v = w THEN called[v] \cup {from}
               ELSE called[v]]
        /\ lastContext' =
               IF (to = "translation" /\ enters) \/ (from = "translation" /\ w # 0)
               THEN GetContext(buffer') ELSE lastContext

\* ------------------------------------------------------------- admission

\* Mutants: a release that is forgotten, or made a second time.
ReleaseOnSkipOmitted(v) == v
ReleaseOnErrorOmitted(v) == v
ReleaseOnErrorTwice(v) == v + 2

\* Mutants: the slot of a played batch is kept, or given back twice.
ReleaseAfterPlayOmitted(v) == v
ReleaseAfterPlayTwice(v) == v + 2

\* pipeline_semaphore.release() at each of its four call sites.
ReleaseOnSkip(v) == v + 1
ReleaseOnError(v) == v + 1
ReleaseAfterPlay(v) == v + 1

\* The finally block of _process_batch_async.
TaskFinally(n) == n - 1

\* Orchestrator.process_audio forwards a frame only while the session is active,
\* that is between start and stop; add_batch is reached through it alone.
SessionActive == session_active

\* Mutant: the acquire takes no slot.
SlotAcquiredFree(v) == v

\* pipeline_semaphore.acquire() returns: one free slot less.
SlotAcquired(v) == v - 1

\* add_batch from the return of pipeline_semaphore.acquire on: the batch is
\* counted as processing, its background task is created and the call returns
\* to the receive loop.
Admit(u) ==
    /\ pipeline_semaphore' = SlotAcquired(pipeline_semaphore)
    /\ processing_count' = processing_count + 1
    /\ submitted' = u
    /\ pc' = [pc EXCEPT ![u] = "created"]
    /\ recvPc' = "receive"

\* add_batch as finalize_phrase awaits it: with a free slot it returns at once;
\* with none the caller, which is the receive loop, waits inside acquire.
AddBatchCall(u) ==
    IF pipeline_semaphore > 0
    THEN Admit(u)
    ELSE /\ recvPc' = "handoff"
         /\ UNCHANGED <<pipeline_semaphore, processing_count, submitted, pc>>

\* An audio message whose frame makes the segmenter finalize the next
\* utterance, long enough to be submitted.  The receive loop awaits
\* process_audio, so calls of add_batch are made one after the other.
AddBatch(u) ==
    /\ recvPc = "receive"
    /\ connected
    /\ SessionActive
    /\ u = submitted + 1
    /\ AddBatchCall(u)
    /\ UNCHANGED <<cfgVars, ready_queue, is_running, playback_started,
                   batches_processed, gateHolder, gateWaiters, language,
                   duration, schedVars, ctxVars, obsVars, orchVars, connected,
                   segCfgVars, sideVars, cutVars, reqVars, segVars, intakeObsVars>>

\* A slot was released while add_batch waited in acquire: the call goes on.
HandoffReturn(u) ==
    /\ recvPc = "handoff"
    /\ u = submitted + 1
    /\ pipeline_semaphore > 0
    /\ Admit(u)
    /\ UNCHANGED <<cfgVars, ready_queue, is_running, playback_started,
                   batches_processed, gateHolder, gateWaiters, language,
                   duration, schedVars, ctxVars, obsVars, orchVars, connected,
                   segCfgVars, sideVars, cutVars, reqVars, segVars, intakeObsVars>>

\* First run of the task: the event loop starts tasks in creation order, and
\* the task runs up to the STT gate (or into the STT call when the gate is free).
TaskStart(u) ==
    /\ pc[u] = "created"
    /\ \A v \in Utterances : v < u => pc[v] # "created"
    /\ buffer' = buffer
    /\ GateStep(u, "none", "stt", "done")
    /\ UNCHANGED <<cfgVars, intakeVars, pipeline_semaphore, processing_count, ready_queue,
                   is_running, playback_started, batches_processed, submitted,
                   language, duration, schedVars, released, result,
                   playOrder, played, sinceEmit, slack, startedBuffered, cancelled>>

\* A task ends with an exception raised inside gate g: the gate is released by
\* its context manager, process_batch records and re-raises, and
\* _process_batch_async releases the admission slot and decrements the counter.
TaskFails(u, g, how) ==
    /\ buffer' = buffer
    /\ GateStep(u, g, "none", "done")
    /\ pipeline_semaphore' = ReleaseOnError(pipeline_semaphore)
    /\ released' = [released EXCEPT
                      ![u] = @ + (pipeline_semaphore' - pipeline_semaphore)]
    /\ processing_count' = TaskFinally(processing_count)
    /\ result' = [result EXCEPT ![u] = how]
    /\ UNCHANGED <<cfgVars, intakeVars, ready_queue, is_running, playback_started,
                   batches_processed, submitted, language, duration, schedVars,
                   playOrder, played, sinceEmit, slack, startedBuffered, cancelled>>

\* Mutant: the translation stage is left out of the chain.
StageAfterSkipping(g) == IF g = "stt" THEN "tts" ELSE "none"

\* The stage process_batch enters after stage g has returned a value: the three
\* "async with" blocks follow one another in the body of the function.
StageAfter(g) ==
    CASE g = "stt" -> "translation"
      [] g = "translation" -> "tts"
      [] OTHER -> "none"

\* The language test of process_batch: Russian speech is not translated.
IsOutputLanguage(lang) == lang \in {"ru", "russian", "rus"}

Languages == {"en", "ru"}

\* transcribe() returned a transcription in language lang.
SttSucceeds(u, lang) ==
    /\ language' = [language EXCEPT ![u] = lang]
    /\ buffer' = buffer
    /\ IF IsOutputLanguage(lang)
       THEN GateStep(u, "stt", "none", "notify")
       ELSE GateStep(u, "stt", StageAfter("stt"), "done")
    /\ UNCHANGED <<cfgVars, intakeVars, pipeline_semaphore, processing_count, ready_queue,
                   is_running, playback_started, batches_processed, submitted,
                   duration, schedVars, released, result, playOrder, played,
                   sinceEmit, slack, startedBuffered, cancelled>>

\* The STT call of u ends.
SttReturn(u) ==
    /\ pc[u] = "stt"
    /\ \/ \E lang \in Languages : SttSucceeds(u, lang)
       \/ TaskFails(u, "stt", "stt_error")

\* The russian_detected notice was sent (or the send raised): the task returns
\* None and the slot is released at once; a failed send takes the error path.
SkipNotifyReturn(u) ==
    /\ pc[u] = "notify"
    /\ \/ /\ pc' = [pc EXCEPT ![u] = "done"]
          /\ pipeline_semaphore' = ReleaseOnSkip(pipeline_semaphore)
          /\ result' = [result EXCEPT ![u] = "skipped"]
       \/ /\ pc' = [pc EXCEPT ![u] = "done"]
          /\ pipeline_semaphore' = ReleaseOnError(pipeline_semaphore)
          /\ result' = [result EXCEPT ![u] = "notify_error"]
    /\ released' = [released EXCEPT
                      ![u] = @ + (pipeline_semaphore' - pipeline_semaphore)]
    /\ processing_count' = TaskFinally(processing_count)
    /\ UNCHANGED <<cfgVars, intakeVars, ready_queue, is_running, playback_started,
                   batches_processed, gateHolder, gateWaiters, submitted,
                   language, duration, schedVars, ctxVars, called, playOrder,
                   played,
                   sinceEmit, slack, startedBuffered, cancelled>>

\* The text of utterance u as a context sentence.
TextOf(u) == <<u, 1>>

\* The translate() call of u ends: on success the source text joins the
\* context buffer inside the gate, then the task moves on to the TTS gate.
TranslationReturn(u) ==
    /\ pc[u] = "translation"
    /\ \/ /\ buffer' = AddSentence(buffer, TextOf(u))
          /\ GateStep(u, "translation", StageAfter("translation"), "done")
          /\ UNCHANGED <<cfgVars, intakeVars, pipeline_semaphore, processing_count,
                         ready_queue, is_running, playback_started,
                         batches_processed, submitted, language, duration,
                         schedVars, released, result, playOrder, played,
                         sinceEmit, slack, startedBuffered, cancelled>>
       \/ TaskFails(u, "translation", "translation_error")

\* Mutant: the slot is given back as soon as the batch is queued.
SlotAtEnqueueReleased(v) == v + 1

\* A batch put on ready_queue is flagged as still holding its slot: the
\* success path of _process_batch_async makes no release.
SlotAtEnqueue(v) == v

\* Mutant: a LIFO queue in place of the FIFO queue.
QueuePutFront(q, u) == <<u>> \o q

\* ready_queue.put of an unbounded queue never waits.
QueuePut(q, u) == Append(q, u)

\* The synthesize() call of u ends: on success the batch (with the duration
\* computed from its audio) is marked as holding a slot and put on ready_queue.
TtsReturn(u) ==
    /\ pc[u] = "tts"
    /\ \/ /\ \E d \in 1..MaxDuration : duration' = [duration EXCEPT ![u] = d]
          /\ buffer' = buffer
          /\ GateStep(u, "tts", StageAfter("tts"), "done")
          /\ ready_queue' = QueuePut(ready_queue, u)
          /\ pipeline_semaphore' = SlotAtEnqueue(pipeline_semaphore)
          /\ released' = [released EXCEPT
                            ![u] = @ + (pipeline_semaphore' - pipeline_semaphore)]
          /\ processing_count' = TaskFinally(processing_count)
          /\ result' = [result EXCEPT ![u] = "ok"]
          /\ UNCHANGED <<cfgVars, intakeVars, is_running,
                         playback_started, batches_processed, submitted,
                         language, schedVars, playOrder, played,
                         sinceEmit, slack, startedBuffered, cancelled>>
       \/ /\ duration' = duration
          /\ TaskFails(u, "tts", "tts_error")

\* A semaphore that is not FIFO: a waiter of a free gate wakes up and takes it.
GateWake(u, g) ==
    /\ ~fifoGates
    /\ pc[u] = WaitPc[g]
    /\ gateHolder[g] = 0
    /\ gateHolder' = [gateHolder EXCEPT ![g] = u]
    /\ gateWaiters' = [gateWaiters EXCEPT ![g] = RemoveFrom(@, u)]
    /\ pc' = [pc EXCEPT ![u] = g]
    /\ called' = [called EXCEPT ![u] = @ \cup {g}]
    /\ lastContext' = IF g = "translation" THEN GetContext(buffer)
                      ELSE lastContext
    /\ UNCHANGED <<cfgVars, intakeVars, pipeline_semaphore, processing_count, ready_queue,
                   is_running, playback_started, batches_processed, submitted,
                   language, duration, schedVars, buffer, released,
                   result, playOrder, played, sinceEmit, slack, startedBuffered, cancelled>>


\* ---------------------------------------------------------- playback loop

\* start_playback_loop: a second call while running is refused; otherwise the
\* flag is set and the loop task is created, waiting for the prebuffer.
StartPlaybackLoop ==
    /\ ~is_running
    /\ is_running' = TRUE
    /\ schedPc' = "buffering"

Modes == {"contextual", "literal"}

\* BatchQueue.__init__ takes `topic=None` and start_session builds the queue
\* without a topic argument.
DefaultTopic == "None"

\* Orchestrator.start_session(mode): build the batch queue and the segmenter
\* of the chosen profile, mark the session active and start the playback
\* loop.  The first session of an orchestrator is modelled (schedPc = "none":
\* no loop was created yet).
StartSession(mode) ==
    /\ recvPc = "receive"
    /\ connected
    /\ schedPc = "none"
    /\ batch_queue' = "BatchQueue"
    /\ stream_processor' = IF mode = "literal" THEN "LiteralStreamProcessor"
                           ELSE "StreamProcessor"
    /\ topic' = DefaultTopic
    /\ session_active' = TRUE
    /\ StartPlaybackLoop
    /\ UNCHANGED <<cfgVars, pipeline_semaphore, processing_count, ready_queue,
                   playback_started, batches_processed, gateHolder, gateWaiters,
                   taskVars, current, sleepLeft, ctxVars, obsVars, audio_errors,
                   linkVars, segCfgVars, sideVars, cutVars, startRequest, segVars,
                   intakeObsVars>>

\* No background task of the stopped session is still running.
PreviousTasksEnded == \A u \in Utterances : pc[u] \in {"idle", "done"}

\* Orchestrator.start_session(mode) after a stop_session on the same
\* orchestrator, once the tasks of the stopped session have ended: a new
\* BatchQueue (with its gates, its ready_queue, its counters and its
\* ContextBuffer) and a new segmenter (with its VADDetector) are built and a
\* new playback loop is started.  The MetricsCollector belongs to the
\* orchestrator (built in Orchestrator.__init__) and is handed to the new
\* queue as it is.
RestartSession(mode) ==
    /\ recvPc = "receive"
    /\ connected
    /\ schedPc = "stopped"
    /\ PreviousTasksEnded
    /\ batch_queue' = "BatchQueue"
    /\ stream_processor' = IF mode = "literal" THEN "LiteralStreamProcessor"
                           ELSE "StreamProcessor"
    /\ topic' = DefaultTopic
    /\ pipeline_semaphore' = max_concurrent_batches
    /\ processing_count' = 0
    /\ ready_queue' = <<>>
    /\ playback_started' = FALSE
    /\ gateHolder' = [g \in StageSet |-> 0]
    /\ gateWaiters' = [g \in StageSet |-> <<>>]
    /\ buffer' = <<>>
    /\ phrase_start_time' = None
    /\ current_phrase' = 0
    /\ speech_frames' = 0
    /\ silence_frames' = 0
    /\ session_active' = TRUE
    /\ StartPlaybackLoop
    /\ UNCHANGED <<cfgVars, batches_processed, taskVars, current, sleepLeft,
                   lastContext, obsVars, audio_errors, linkVars, segCfgVars, sideVars,
                   cutVars, startRequest, now, intakeObsVars>>

\* Mutants: the buffering loop waits for one batch only, or for the built-in
\* default whatever the configuration says.
PrebufferReachedAny(depth) == depth >= 1
PrebufferReachedDefault(depth) == depth >= DefaultPrebuffer

\* The test of the buffering loop of _playback_loop.
PrebufferReached(depth) == depth >= min_ready_chunks_before_start

\* ready_queue.get followed by the start of _play_batch: with a batch ready the
\* loop takes it and runs into the first send; with none it waits in get.
TakeNext ==
    /\ sinceEmit' = 0
    /\ sleepLeft' = 0
    /\ IF ready_queue = <<>>
       THEN /\ schedPc' = "waiting"
            /\ current' = 0
            /\ UNCHANGED <<ready_queue, playOrder>>
       ELSE /\ schedPc' = "emitting"
            /\ current' = Head(ready_queue)
            /\ ready_queue' = Tail(ready_queue)
            /\ playOrder' = Append(playOrder, Head(ready_queue))

\* The buffering loop finds too few batches ready and sleeps another 0.5 s.
PrebufferPoll ==
    /\ schedPc = "buffering"
    /\ ~PrebufferReached(Len(ready_queue))
    /\ UNCHANGED vars

\* The buffering loop finds enough batches ready: playback starts.
PrebufferDone ==
    /\ schedPc = "buffering"
    /\ PrebufferReached(Len(ready_queue))
    /\ playback_started' = TRUE
    /\ startedBuffered' = (Len(ready_queue) >= min_ready_chunks_before_start)
    /\ TakeNext
    /\ UNCHANGED <<cfgVars, intakeVars, pipeline_semaphore, processing_count, is_running,
                   batches_processed, gateHolder, gateWaiters, taskVars,
                   ctxVars, released, called, result, played, slack,
                   cancelled>>

\* The loop, waiting in ready_queue.get, is handed a batch.
QueueGet ==
    /\ schedPc = "waiting"
    /\ ready_queue # <<>>
    /\ TakeNext
    /\ UNCHANGED <<cfgVars, intakeVars, pipeline_semaphore, processing_count, is_running,
                   playback_started, batches_processed, gateHolder, gateWaiters,
                   taskVars, ctxVars, released, called, result, played, slack,
                   startedBuffered, cancelled>>

\* Mutant: the loop does not sleep between batches.
PlaybackSleepNone(d) == 0

\* asyncio.sleep(batch["duration"]) of _play_batch: ticks it has to run.
PlaybackSleep(d) == d

\* The finally block of _play_batch releases the slot of a batch that carries
\* the _pipeline_semaphore_acquired mark (every batch on ready_queue carries
\* it); the batch is dropped.
SlotAfterPlay(u) ==
    /\ pipeline_semaphore' = ReleaseAfterPlay(pipeline_semaphore)
    /\ released' = [released EXCEPT
                      ![u] = @ + (pipeline_semaphore' - pipeline_semaphore)]
    /\ duration' = [duration EXCEPT ![u] = 0]

\* The sends of transcription, translation, audio and metrics end: either all
\* were sent and the loop sleeps for the duration of the audio, or one raised,
\* the slot is released and the loop goes on with the next batch.
EmitReturn ==
    /\ schedPc = "emitting"
    /\ \/ /\ connected
          /\ schedPc' = "sleeping"
          /\ sleepLeft' = PlaybackSleep(duration[current])
          /\ UNCHANGED <<pipeline_semaphore, ready_queue, current, released,
                         playOrder, sinceEmit, duration>>
       \/ /\ SlotAfterPlay(current)
          /\ TakeNext
    /\ UNCHANGED <<cfgVars, intakeVars, processing_count, is_running, playback_started,
                   batches_processed, gateHolder, gateWaiters, submitted, pc,
                   language, ctxVars, called, result, played, slack,
                   startedBuffered, cancelled>>

\* One tick of the clock during the duration sleep.  The sends are taken to
\* need no time, which is the shortest playback the code can produce.
Tick ==
    /\ schedPc = "sleeping"
    /\ sleepLeft > 0
    /\ sleepLeft' = sleepLeft - 1
    /\ sinceEmit' = sinceEmit + 1
    /\ UNCHANGED <<cfgVars, intakeVars, queueVars, taskVars, schedPc, current, ctxVars,
                   released, called, result, playOrder, played, slack,
                   startedBuffered, cancelled>>

\* Mutant: a played batch is counted twice.
BatchCountedTwice(n) == n + 2

\* self.metrics.batches_processed += 1 after the duration sleep.
BatchCounted(n) == n + 1

\* The duration sleep is over: the batch counts as processed and the closing
\* metrics message is sent.
SleepReturn ==
    /\ schedPc = "sleeping"
    /\ sleepLeft = 0
    /\ batches_processed' = BatchCounted(batches_processed)
    /\ played' = played \cup {current}
    /\ schedPc' = "closing"
    /\ UNCHANGED <<cfgVars, intakeVars, pipeline_semaphore, processing_count, ready_queue,
                   is_running, playback_started, gateHolder, gateWaiters,
                   taskVars, current, sleepLeft, ctxVars, released, called,
                   result, playOrder, sinceEmit, slack, startedBuffered, cancelled>>

\* The closing metrics send ends (sent, or raised): the slot is released and
\* the loop goes on with the next batch.
CloseReturn ==
    /\ schedPc = "closing"
    /\ slack' = sinceEmit - duration[current]
    /\ SlotAfterPlay(current)
    /\ TakeNext
    /\ UNCHANGED <<cfgVars, intakeVars, processing_count, is_running, playback_started,
                   batches_processed, gateHolder, gateWaiters, submitted, pc,
                   language, ctxVars, called, result, played, startedBuffered, cancelled>>

\* Mutant: the loop task is not cancelled.
CancelLoopOmitted(p) == p

\* playback_task.cancel() and the await of the task: the loop leaves at its
\* suspension point through the CancelledError handler.
CancelLoop(p) == "stopped"

\* stop_playback_loop: the flags are cleared and the loop is cancelled; a batch
\* in playback releases its slot in the finally block of _play_batch.
\* Background tasks are left running.
StopPlaybackLoop ==
    /\ is_running' = FALSE
    /\ playback_started' = FALSE
    /\ schedPc' = CancelLoop(schedPc)
    /\ IF schedPc' = "stopped"
       THEN /\ current' = 0
            /\ sleepLeft' = 0
            /\ sinceEmit' = 0
            /\ cancelled' = current
            /\ IF current # 0 THEN SlotAfterPlay(current)
               ELSE UNCHANGED <<pipeline_semaphore, released, duration>>
       ELSE UNCHANGED <<current, sleepLeft, sinceEmit, pipeline_semaphore,
                        released, duration, cancelled>>

\* Mutant: the batch queue is stopped whether or not there is one.
HasQueueAlways(q) == TRUE

\* `if self.batch_queue:` of stop_session.
HasQueue(q) == q # "None"

\* stop_session would call a method of None: the AttributeError leaves
\* stop_session before the session objects are dropped.
StopRaises == HasQueue(batch_queue) /\ batch_queue = "None"

\* Orchestrator.stop_session: the session is marked inactive, the playback
\* loop is stopped, the context buffer cleared and the session objects dropped.
StopSessionCall ==
    /\ stopCalls' = IF stopCalls < MaxStops THEN stopCalls + 1 ELSE stopCalls
    /\ session_active' = FALSE
    /\ IF HasQueue(batch_queue) /\ ~StopRaises
       THEN /\ StopPlaybackLoop
            /\ buffer' = <<>>
       ELSE UNCHANGED <<is_running, playback_started, schedVars,
                        pipeline_semaphore, released, duration, sinceEmit,
                        buffer, cancelled>>
    /\ batch_queue' = "None"
    /\ stream_processor' = "None"
    /\ UNCHANGED <<cfgVars, processing_count, ready_queue, batches_processed,
                   gateHolder, gateWaiters, submitted, pc, language,
                   lastContext, called, result, playOrder, played, slack,
                   startedBuffered, audio_errors, connected, segCfgVars, sideVars,
                   cutVars, topic, segVars, audioCalls, finalized, pattern>>

\* A stop message: the receive loop awaits stop_session.  An exception leaving
\* it ends the endpoint through its handler, which finds the session inactive.
StopSession ==
    /\ recvPc = "receive"
    /\ connected
    /\ StopSessionCall
    /\ recvPc' = IF StopRaises THEN "closed" ELSE "receive"
    /\ UNCHANGED startRequest

\* The client goes away.
Disconnect ==
    /\ connected
    /\ recvPc # "closed"
    /\ connected' = FALSE
    /\ UNCHANGED <<cfgVars, queueVars, taskVars, schedVars, ctxVars, obsVars,
                   orchVars, recvPc, segCfgVars, sideVars, cutVars, reqVars, segVars, intakeObsVars>>

\* receive_json raises WebSocketDisconnect: the handler stops an active
\* session and the endpoint returns.
ReceiveDisconnect ==
    /\ recvPc = "receive"
    /\ ~connected
    /\ recvPc' = "closed"
    /\ UNCHANGED startRequest
    /\ IF session_active
       THEN StopSessionCall
       ELSE UNCHANGED <<cfgVars, queueVars, taskVars, schedVars, ctxVars,
                        obsVars, orchVars, connected, segCfgVars, sideVars, cutVars,
                        topic, segVars, intakeObsVars>>

\* The parameters start_session can be called with, and the keywords the
\* receive loop calls it with.
StartSessionParams == {"mode"}
StartCallKeywords == {"mode", "topic"}

\* A call binds its keyword arguments to parameters of the same name; a
\* keyword without a parameter raises TypeError before the body runs.
CallBinds(keywords, params) == keywords \subseteq params

\* The topic of a start message: message.get("topic", None).
Topics == {"None", "weather"}

\* A start message: the receive loop calls
\* start_session(mode=mode, topic=topic).  The call does not bind, the
\* TypeError reaches the `except Exception` handler of the endpoint, which
\* stops an active session, and the endpoint returns.
ReceiveStart(mode, t) ==
    /\ recvPc = "receive"
    /\ connected
    /\ mode \in Modes
    /\ ~CallBinds(StartCallKeywords, StartSessionParams)
    /\ startRequest' = t
    /\ recvPc' = "closed"
    /\ IF session_active
       THEN StopSessionCall
       ELSE UNCHANGED <<cfgVars, queueVars, taskVars, schedVars, ctxVars,
                        obsVars, orchVars, connected, segCfgVars, sideVars, cutVars,
                        topic, segVars, intakeObsVars>>

\* ------------------------------------------------------------- segmenter

\* VADDetector.detect_speech: the two counters after a frame was classified.
SpeechAfter(is_speech) == IF is_speech THEN speech_frames + 1 ELSE 0
SilenceAfter(is_speech) == IF is_speech THEN 0 ELSE silence_frames + 1

\* The silence threshold in frames: the throughput profile asks
\* VADDetector.is_silence_ready, which uses the configured duration; the
\* latency profile compares the counter with its own constant.
SilenceThreshold ==
    IF stream_processor = "LiteralStreamProcessor" THEN LiteralSilenceFrames
    ELSE min_silence_frames

\* Mutant: silence is never found long enough.
IsSilenceReadyNever(sil) == FALSE

\* is_silence_ready, on the counter left by the classification of this frame.
IsSilenceReady(sil) == sil >= SilenceThreshold

\* Mutant: the forced cut is taken at the minimum duration.
ForcedCutAtMinimum(elapsed) == elapsed >= min_chunk_duration

\* `elif phrase_duration >= max_chunk`.
ForcedCut(elapsed) == elapsed >= max_phrase_duration

\* Mutant: silence is looked at from the first frame on.
AccumulatingNever(elapsed) == FALSE

\* `if phrase_duration < min_chunk`: the utterance only accumulates.
Accumulating(elapsed) == elapsed < min_chunk_duration

\* The decision of process_chunk for an open utterance.
ShouldFinalize(elapsed, sil) ==
    IF Accumulating(elapsed) THEN FALSE
    ELSE IF ForcedCut(elapsed) THEN TRUE
    ELSE IsSilenceReady(sil)

\* Mutant: the silence test comes before the test of the maximum.
CutKindSilenceFirst(elapsed, sil) ==
    IF IsSilenceReady(sil) THEN "natural" ELSE "forced"

\* The branch of the decision that closes the utterance: the test of the
\* maximum comes first, the silence test is its else-branch.
CutKind(elapsed, sil) == IF ForcedCut(elapsed) THEN "forced" ELSE "natural"

\* Mutant: any frame opens an utterance.
OpensPhraseAlways(is_speech) == TRUE

\* `if is_speech and self.phrase_start_time is None` opens an utterance.
OpensPhrase(is_speech) == is_speech

\* phrase_start_time once the frame may have opened an utterance.
StartAfter(is_speech) ==
    IF OpensPhrase(is_speech) /\ phrase_start_time = None THEN now
    ELSE phrase_start_time

\* phrase_duration: the clock is read when the frame is handled.
Elapsed(is_speech) == now - StartAfter(is_speech)

\* The frame closes the open utterance.
Finalizes(is_speech) ==
    /\ StartAfter(is_speech) # None
    /\ ShouldFinalize(Elapsed(is_speech), SilenceAfter(is_speech))

\* Mutant: no utterance is too short.
LongEnoughAlways(n) == TRUE

\* `if len(audio) < min_samples: return` of finalize_phrase, negated.
LongEnough(n) == n >= min_samples

\* finalize_phrase hands the utterance to add_batch unless it is shorter than
\* min_samples (one frame counts as one unit of samples).
Submits(is_speech) ==
    /\ Finalizes(is_speech)
    /\ LongEnough(current_phrase + 1)

\* Mutant: the counters are left as they are.
VadResetOmitted(c) == c

\* VADDetector.reset zeroes a counter.
VadReset(c) == 0

\* The shape of the classifications seen so far: only silence, only speech,
\* or ("break") speech that lasted the minimum duration with no utterance
\* closed, followed by silence only.
PatternAfter(is_speech) ==
    CASE pattern = "none" -> IF is_speech THEN "speech" ELSE "silence"
      [] pattern = "silence" -> IF is_speech THEN "other" ELSE "silence"
      [] pattern = "speech" ->
            IF is_speech THEN "speech"
            ELSE IF finalized = 0 /\ phrase_start_time # None
                    /\ now - phrase_start_time >= min_chunk_duration
                 THEN "break" ELSE "other"
      [] pattern = "break" -> IF is_speech THEN "other" ELSE "break"
      [] OTHER -> "other"

\* process_chunk with a frame classified is_speech: the counters move, an open
\* utterance takes the frame and is closed when the decision says so (the
\* counters are reset); outside the lock a closed utterance is handed over.
ProcessChunk(is_speech) ==
    /\ phrase_start_time' = IF Finalizes(is_speech) THEN None
                            ELSE StartAfter(is_speech)
    /\ current_phrase' =
           IF Finalizes(is_speech) THEN 0
           ELSE IF StartAfter(is_speech) # None THEN current_phrase + 1
           ELSE current_phrase
    /\ speech_frames' = IF Finalizes(is_speech)
                        THEN VadReset(SpeechAfter(is_speech))
                        ELSE SpeechAfter(is_speech)
    /\ silence_frames' = IF Finalizes(is_speech)
                         THEN VadReset(SilenceAfter(is_speech))
                         ELSE SilenceAfter(is_speech)
    /\ lastFrame' = IF is_speech THEN "speech" ELSE "silence"
    /\ lastCut' = IF Finalizes(is_speech)
                  THEN CutKind(Elapsed(is_speech), SilenceAfter(is_speech))
                  ELSE "none"
    /\ finalized' = IF Finalizes(is_speech) THEN finalized + 1 ELSE finalized
    /\ pattern' = PatternAfter(is_speech)
    /\ IF Submits(is_speech)
       THEN AddBatchCall(submitted + 1)
       ELSE UNCHANGED <<pipeline_semaphore, processing_count, submitted, pc,
                        recvPc>>

\* Mutant: every frame is forwarded.
ForwardsAlways(active) == TRUE

\* `if not self.session_active: return` of process_audio.
Forwards(active) == active

\* An audio message: the receive loop awaits process_audio, which forwards the
\* frame to the segmenter of an active session; an exception of the segmenter
\* call is recorded and swallowed.
AudioMessage(is_speech) ==
    /\ recvPc = "receive"
    /\ connected
    /\ audioCalls < MaxFrames
    /\ audioCalls' = audioCalls + 1
    /\ IF ~Forwards(session_active)
       THEN UNCHANGED <<pipeline_semaphore, processing_count, submitted, pc,
                        recvPc, audio_errors, segVars, finalized, pattern,
                        cutVars>>
       ELSE IF stream_processor = "None"
       THEN /\ audio_errors' = audio_errors + 1
            /\ UNCHANGED <<pipeline_semaphore, processing_count, submitted,
                           pc, recvPc, segVars, finalized, pattern, cutVars>>
       ELSE /\ Submits(is_speech) => submitted < NumUtterances
            /\ ProcessChunk(is_speech)
            /\ UNCHANGED <<audio_errors, now>>
    /\ UNCHANGED <<cfgVars, ready_queue, is_running, playback_started,
                   batches_processed, gateHolder, gateWaiters, language,
                   duration, schedVars, ctxVars, obsVars, session_active,
                   batch_queue, stream_processor, connected, segCfgVars,
                   orphan, reqVars, stopCalls>>

ReceiveAudio(is_speech) == AudioMessage(is_speech) /\ UNCHANGED twin

\* LiteralStreamProcessor.process_chunk on a processor in state t, for a frame
\* classified is_speech by its detector, with the attributes minChunk,
\* maxChunk (durations) and silenceFrames (int(min_silence_duration * 10)).

\* Mutant: the pause has to be longer than the threshold.
LiteralShouldFinalizeStrict(elapsed, sil, minChunk, maxChunk, silenceFrames) ==
    IF elapsed < minChunk THEN FALSE
    ELSE IF elapsed >= maxChunk THEN TRUE
    ELSE sil > silenceFrames

\* The decision of LiteralStreamProcessor.process_chunk for an open utterance.
LiteralShouldFinalize(elapsed, sil, minChunk, maxChunk, silenceFrames) ==
    IF elapsed < minChunk THEN FALSE
    ELSE IF elapsed >= maxChunk THEN TRUE
    ELSE sil >= silenceFrames

LiteralProcessChunk(t, is_speech, minChunk, maxChunk, silenceFrames) ==
    LET speech == IF is_speech THEN t.speech_frames + 1 ELSE 0
        silence == IF is_speech THEN 0 ELSE t.silence_frames + 1
        start == IF is_speech /\ t.phrase_start_time = None THEN now
                 ELSE t.phrase_start_time
        phrase == IF start # None THEN t.current_phrase + 1
                  ELSE t.current_phrase
        closes == /\ start # None
                  /\ LiteralShouldFinalize(now - start, silence, minChunk,
                                           maxChunk, silenceFrames)
    IN  IF closes
        THEN [phrase_start_time |-> None, current_phrase |-> 0,
              speech_frames |-> 0, silence_frames |-> 0,
              finalized |-> t.finalized + 1]
        ELSE [phrase_start_time |-> start, current_phrase |-> phrase,
              speech_frames |-> speech, silence_frames |-> silence,
              finalized |-> t.finalized]

\* An audio message of a session whose frames are also given, with the same
\* classification and at the same clock reading, to a LiteralStreamProcessor
\* whose three thresholds are those of the session's StreamProcessor.
TwinAudio(is_speech) ==
    /\ AudioMessage(is_speech)
    /\ twin' = IF Forwards(session_active) /\ stream_processor # "None"
               THEN LiteralProcessChunk(twin, is_speech, min_chunk_duration,
                                        max_phrase_duration, min_silence_frames)
               ELSE twin

\* The wall clock moves on.
ClockTick ==
    /\ now < MaxClock
    /\ now' = now + 1
    /\ UNCHANGED <<cfgVars, queueVars, taskVars, schedVars, ctxVars, obsVars,
                   orchVars, linkVars, segCfgVars, sideVars, cutVars, reqVars, phrase_start_time,
                   current_phrase, speech_frames, silence_frames,
                   intakeObsVars>>

\* ------------------------------------------------------- specification

\* A LiteralStreamProcessor as its constructor leaves it (with its detector).
TwinIdle ==
    [phrase_start_time |-> None, current_phrase |-> 0, speech_frames |-> 0,
     silence_frames |-> 0, finalized |-> 0]

\* No batch queue was replaced: there is no playback loop besides the one of
\* the session.
NoOrphan == [schedPc |-> "none", ready_queue |-> <<>>, current |-> 0]

\* The state after the constructors have run, for one configuration.
InitWith(slots, prebuffer, window, chars, fifo) ==
    /\ max_concurrent_batches = slots
    /\ min_ready_chunks_before_start = prebuffer
    /\ window_size = window
    /\ max_chars = chars
    /\ fifoGates = fifo
    /\ pipeline_semaphore = slots
    /\ processing_count = 0
    /\ ready_queue = <<>>
    /\ is_running = FALSE
    /\ playback_started = FALSE
    /\ batches_processed = 0
    /\ gateHolder = [s \in StageSet |-> 0]
    /\ gateWaiters = [s \in StageSet |-> <<>>]
    /\ submitted = 0
    /\ pc = [u \in Utterances |-> "idle"]
    /\ language = [u \in Utterances |-> "unknown"]
    /\ duration = [u \in Utterances |-> 0]
    /\ schedPc = "none"
    /\ current = 0
    /\ sleepLeft = 0
    /\ buffer = <<>>
    /\ lastContext = <<>>
    /\ released = [u \in Utterances |-> 0]
    /\ called = [u \in Utterances |-> {}]
    /\ result = [u \in Utterances |-> "none"]
    /\ playOrder = <<>>
    /\ played = {}
    /\ sinceEmit = 0
    /\ slack = 0
    /\ startedBuffered = FALSE
    /\ cancelled = 0

\* The orchestrator, the endpoint and the clock after the connection was
\* accepted, for one configuration of the segmenter.
InitIntakeWith(minChunk, maxChunk, silenceFrames, minSamples) ==
    /\ session_active = FALSE
    /\ batch_queue = "None"
    /\ stream_processor = "None"
    /\ audio_errors = 0
    /\ recvPc = "receive"
    /\ connected = TRUE
    /\ min_chunk_duration = minChunk
    /\ max_phrase_duration = maxChunk
    /\ min_silence_frames = silenceFrames
    /\ min_samples = minSamples
    /\ now = 0
    /\ phrase_start_time = None
    /\ current_phrase = 0
    /\ speech_frames = 0
    /\ silence_frames = 0
    /\ stopCalls = 0
    /\ audioCalls = 0
    /\ finalized = 0
    /\ pattern = "none"
    /\ lastFrame = "none"
    /\ lastCut = "none"
    /\ topic = "None"
    /\ startRequest = "none"
    /\ twin = TwinIdle
    /\ orphan = NoOrphan

\* A session of the pipeline, for every explored configuration of the admission
\* gate, the prebuffer threshold and the semaphores' wake-up order.  The
\* segmenter is taken as the source of utterances (AddBatch).
Init ==
    \E slots \in 1..DefaultQueueSize, prebuffer \in 1..DefaultPrebuffer,
       fifo \in BOOLEAN :
        /\ InitWith(slots, prebuffer, MaxWindow, MaxChars, fifo)
        /\ InitIntakeWith(1, 1, 1, 1)

Next ==
    \/ StartSession("contextual")
    \/ \E u \in Utterances : AddBatch(u)
    \/ \E u \in Utterances : HandoffReturn(u)
    \/ \E u \in Utterances : TaskStart(u)
    \/ \E u \in Utterances : SttReturn(u)
    \/ \E u \in Utterances : SkipNotifyReturn(u)
    \/ \E u \in Utterances : TranslationReturn(u)
    \/ \E u \in Utterances : TtsReturn(u)
    \/ \E u \in Utterances, g \in StageSet : GateWake(u, g)
    \/ PrebufferPoll
    \/ PrebufferDone
    \/ QueueGet
    \/ EmitReturn
    \/ Tick
    \/ SleepReturn
    \/ CloseReturn
    \/ (session_active /\ StopSession)

Spec == Init /\ [][Next]_vars

\* Sessions one after the other on one orchestrator: a stopped session whose
\* tasks have ended may be followed by a new one.
NextRestart == Next \/ RestartSession("contextual")

SpecRestart == Init /\ [][NextRestart]_vars

\* Orchestrator.start_session(mode) while a session is active (no
\* stop_session in between), once the tasks of the running session have
\* ended: self.batch_queue and self.stream_processor are overwritten with new
\* objects and the playback loop of the new queue is started (its is_running
\* is False, so start_playback_loop does not refuse).  Nothing cancels the
\* playback task of the replaced queue: it goes on with the batches that are
\* on its ready_queue.
StartSessionAgain(mode) ==
    /\ recvPc = "receive"
    /\ connected
    /\ session_active
    /\ schedPc \notin {"none", "stopped"}
    /\ orphan.schedPc = "none"
    /\ PreviousTasksEnded
    /\ orphan' = [schedPc |-> schedPc, ready_queue |-> ready_queue,
                  current |-> current]
    /\ batch_queue' = "BatchQueue"
    /\ stream_processor' = IF mode = "literal" THEN "LiteralStreamProcessor"
                           ELSE "StreamProcessor"
    /\ topic' = DefaultTopic
    /\ pipeline_semaphore' = max_concurrent_batches
    /\ processing_count' = 0
    /\ ready_queue' = <<>>
    /\ playback_started' = FALSE
    /\ gateHolder' = [g \in StageSet |-> 0]
    /\ gateWaiters' = [g \in StageSet |-> <<>>]
    /\ buffer' = <<>>
    /\ phrase_start_time' = None
    /\ current_phrase' = 0
    /\ speech_frames' = 0
    /\ silence_frames' = 0
    /\ session_active' = TRUE
    /\ is_running' = TRUE
    /\ schedPc' = "buffering"
    /\ current' = 0
    /\ sleepLeft' = 0
    /\ UNCHANGED <<cfgVars, batches_processed, taskVars, lastContext, obsVars,
                   audio_errors, linkVars, segCfgVars, twin, cutVars,
                   startRequest, now, intakeObsVars>>

\* ready_queue.get of the replaced queue: no task is left that could put a
\* batch on it, so with an empty queue the loop waits for good.
OrphanTake(o) ==
    IF o.ready_queue = <<>>
    THEN [o EXCEPT !.schedPc = "waiting", !.current = 0]
    ELSE [schedPc |-> "emitting", ready_queue |-> Tail(o.ready_queue),
          current |-> Head(o.ready_queue)]

\* One step of the playback loop of the replaced queue: the prebuffer is
\* found reached, the sends end (sent, or one raised), the duration sleep ends
\* (the batch is counted in the orchestrator's metrics), the closing send
\* ends.  Its slot releases go to the gate of the replaced queue.
OrphanStep ==
    /\ orphan.schedPc \in {"buffering", "emitting", "sleeping", "closing"}
    /\ \/ /\ orphan.schedPc = "buffering"
          /\ PrebufferReached(Len(orphan.ready_queue))
          /\ orphan' = OrphanTake(orphan)
          /\ UNCHANGED batches_processed
       \/ /\ orphan.schedPc = "emitting"
          /\ \/ /\ connected
                /\ orphan' = [orphan EXCEPT !.schedPc = "sleeping"]
             \/ orphan' = OrphanTake(orphan)
          /\ UNCHANGED batches_processed
       \/ /\ orphan.schedPc = "sleeping"
          /\ orphan' = [orphan EXCEPT !.schedPc = "closing"]
          /\ batches_processed' = batches_processed + 1
       \/ /\ orphan.schedPc = "closing"
          /\ orphan' = OrphanTake(orphan)
          /\ UNCHANGED batches_processed
    /\ UNCHANGED <<cfgVars, pipeline_semaphore, processing_count, ready_queue,
                   is_running, playback_started, gateHolder, gateWaiters,
                   taskVars, schedVars, ctxVars, obsVars, orchVars, linkVars,
                   segCfgVars, segVars, intakeObsVars, cutVars, reqVars, twin>>

\* The same pipeline when start_session may be called on an active session.
NextDoubleStart ==
    \/ Next
    \/ StartSessionAgain("contextual")
    \/ OrphanStep

SpecDoubleStart == Init /\ [][NextDoubleStart]_vars

\* ------------------------------------------- the context buffer on its own

\* add_sentence with a sentence of n characters.
CtxAdd(n) ==
    /\ buffer' = AddSentence(buffer, <<0, n>>)
    /\ UNCHANGED <<cfgVars, intakeVars, queueVars, taskVars, schedVars, lastContext,
                   obsVars>>

\* Mutant: the trim is made on the stored deque.
StoredAfterGetTrimmed(buf) == TrimToBudget(buf)

\* get_context works on `list(self.buffer)`, a copy: the deque is only read.
StoredAfterGet(buf) == buf

\* get_context: the trimmed copy is returned.
CtxGet ==
    /\ lastContext' = GetContext(buffer)
    /\ buffer' = StoredAfterGet(buffer)
    /\ UNCHANGED <<cfgVars, intakeVars, queueVars, taskVars, schedVars, obsVars>>

\* clear.
CtxClear ==
    /\ buffer' = <<>>
    /\ UNCHANGED <<cfgVars, intakeVars, queueVars, taskVars, schedVars, lastContext,
                   obsVars>>

\* A freshly built context buffer, for every explored window and budget.
InitContext ==
    \E window \in 1..MaxWindow, chars \in 1..MaxChars :
        /\ InitWith(DefaultQueueSize, DefaultPrebuffer, window, chars, TRUE)
        /\ InitIntakeWith(1, 1, 1, 1)

NextContext ==
    \/ \E n \in 0..MaxSentenceLen : CtxAdd(n)
    \/ CtxGet
    \/ CtxClear

SpecContext == InitContext /\ [][NextContext]_vars


\* A session that is kept active (no stop) on FIFO semaphores.  The event loop
\* runs every task that can run, every collaborator call returns and every
\* sleep ends: some enabled step is eventually taken.
NextSession ==
    \/ StartSession("contextual")
    \/ \E u \in Utterances : AddBatch(u)
    \/ \E u \in Utterances : HandoffReturn(u)
    \/ \E u \in Utterances : TaskStart(u)
    \/ \E u \in Utterances : SttReturn(u)
    \/ \E u \in Utterances : SkipNotifyReturn(u)
    \/ \E u \in Utterances : TranslationReturn(u)
    \/ \E u \in Utterances : TtsReturn(u)
    \/ PrebufferPoll
    \/ PrebufferDone
    \/ QueueGet
    \/ EmitReturn
    \/ Tick
    \/ SleepReturn
    \/ CloseReturn

InitFair ==
    \E slots \in 1..DefaultQueueSize, prebuffer \in 1..DefaultPrebuffer :
        /\ InitWith(slots, prebuffer, MaxWindow, MaxChars, TRUE)
        /\ InitIntakeWith(1, 1, 1, 1)

FairSpec == InitFair /\ [][NextSession]_vars /\ WF_vars(NextSession)

\* The same session on a connection that the client may drop: the scheduler's
\* sends fail from then on and the receive loop, once it is back in
\* receive_json, sees the disconnection.
NextLink ==
    \/ NextSession
    \/ Disconnect
    \/ ReceiveDisconnect

FairLinkSpec == InitFair /\ [][NextLink]_vars /\ WF_vars(NextLink)

\* ------------------------------------- the orchestrator and its segmenter

\* An orchestrator driven by the messages of the receive loop (start, audio
\* frames classified by the VAD, stop) while the clock runs, for every explored
\* configuration of the segmenter.  Background tasks do not run here.
InitIntake ==
    \E minChunk \in 1..MaxChunk, maxChunk \in 1..MaxChunk,
       silenceFrames \in 1..MaxSilenceFrames, minSamples \in 1..MaxMinSamples :
        /\ minChunk < maxChunk
        /\ InitWith(DefaultQueueSize, DefaultPrebuffer, MaxWindow, MaxChars, TRUE)
        /\ InitIntakeWith(minChunk, maxChunk, silenceFrames, minSamples)

NextIntake ==
    \/ \E mode \in Modes : StartSession(mode)
    \/ \E is_speech \in BOOLEAN : ReceiveAudio(is_speech)
    \/ ClockTick
    \/ StopSession

SpecIntake == InitIntake /\ [][NextIntake]_vars

\* The two segmenters side by side on the frames of a throughput session.
NextTwin ==
    \/ StartSession("contextual")
    \/ \E is_speech \in BOOLEAN : TwinAudio(is_speech)
    \/ ClockTick

SpecTwin == InitIntake /\ [][NextTwin]_vars

\* The messages of a client as websocket_endpoint handles them: start, audio
\* and stop messages, and the loss of the connection.
NextEndpoint ==
    \/ \E mode \in Modes, t \in Topics : ReceiveStart(mode, t)
    \/ \E is_speech \in BOOLEAN : ReceiveAudio(is_speech)
    \/ ClockTick
    \/ StopSession
    \/ Disconnect
    \/ ReceiveDisconnect

SpecEndpoint == InitIntake /\ [][NextEndpoint]_vars

\* ------------------------------------------------------------------ claims

Range(seq) == {seq[i] : i \in 1..Len(seq)}

\* Utterances that hold an admission slot: admitted, slot not yet released.
InFlight == {u \in Utterances : u <= submitted /\ released[u] = 0}

\* C1: in every reachable state the number of utterances that have acquired
\* the admission gate and whose slot has not been released (by playback, skip
\* or failure) is at most max_concurrent_batches.
C1_AdmissionBound == Cardinality(InFlight) <= max_concurrent_batches

\* The gate is saturated after an earlier slot was given back, and a further
\* submission is waiting for a slot.
C1_Saturated ==
    /\ Cardinality(InFlight) = max_concurrent_batches
    /\ pipeline_semaphore = 0
    /\ is_running
    /\ submitted < NumUtterances
    /\ \E u \in Utterances : released[u] = 1

\* C2: for each stage gate, at most one utterance is inside that stage's
\* collaborator call, and it is the one holding the gate.
C2_GateExclusive ==
    \A g \in StageSet :
        /\ Cardinality({u \in Utterances : pc[u] = g}) <= 1
        /\ \A u \in Utterances : pc[u] = g => gateHolder[g] = u

\* One utterance is inside a stage call while another waits at the same gate
\* and a third is inside a different stage.
C2_Contended ==
    \E g \in StageSet, h \in StageSet :
        /\ g # h
        /\ gateHolder[g] # 0 /\ gateWaiters[g] # <<>>
        /\ \E u \in Utterances : pc[u] = h

\* No stage call has raised and no utterance was skipped for its language.
AllStagesSucceed ==
    \A u \in Utterances : result[u] \in {"none", "ok"} /\ language[u] # "ru"

\* C3: with FIFO stage gates and every stage call so far carried out with
\* success, the utterances are dequeued for playback in exactly their
\* submission order: the k-th batch dequeued is utterance k.
C3_PlaybackOrder ==
    (fifoGates /\ AllStagesSucceed)
        => \A i \in 1..Len(playOrder) : playOrder[i] = i

\* All utterances succeeded and all were dequeued, with at least two of them
\* on the ready queue at the same time before.
C3_AllPlayed ==
    /\ fifoGates
    /\ \A u \in Utterances : result[u] = "ok"
    /\ Len(playOrder) = NumUtterances
    /\ min_ready_chunks_before_start >= 2

\* C4: no batch is dequeued or emitted before the scheduler has seen
\* min_ready_chunks_before_start batches on the ready queue; while it waits
\* for the prebuffer nothing has been taken or played.
C4_PrebufferFirst ==
    /\ playOrder # <<>> => startedBuffered
    /\ schedPc \in {"none", "buffering"} =>
           /\ playOrder = <<>>
           /\ current = 0
           /\ batches_processed = 0
           /\ ~playback_started

\* Playback began with a threshold of two or more, after a time in which the
\* queue held a batch but not enough of them.
C4_StartedAfterWait ==
    /\ min_ready_chunks_before_start >= 2
    /\ playOrder # <<>>
    /\ startedBuffered

ErrorResults == {"stt_error", "translation_error", "tts_error"}

C5_State ==
    \A u \in Utterances :
        result[u] \in ErrorResults =>
            /\ pc[u] = "done"
            /\ released[u] = 1
            /\ u \notin Range(ready_queue)
            /\ u \notin Range(playOrder)
            /\ current # u

C5_Step ==
    \A u \in Utterances :
        (result[u] = "none" /\ result'[u] \in ErrorResults) =>
            \A v \in Utterances \ {u} :
                /\ released'[v] = released[v]
                /\ result'[v] = result[v]
                /\ (pc'[v] = "done") = (pc[v] = "done")

\* C5: when a stage call of an utterance raises, its admission slot is released
\* exactly once, its task ends and it never reaches the ready queue; the step
\* in which it fails ends no other task and releases no other slot.
C5_FailureIsolated == [][C5_State' /\ C5_Step]_vars

\* An utterance failed in a stage, and another one that was in the pipeline
\* with it went on to be played.
C5_FailedBesideSuccess ==
    \E u \in Utterances, v \in Utterances :
        /\ result[u] \in ErrorResults
        /\ v > u
        /\ v \in played

\* C6: for an utterance transcribed in the output language no Translation and
\* no TTS call is made, and its slot is released exactly once, when its task
\* ends.
C6_LanguageSkip ==
    \A u \in Utterances :
        language[u] = "ru" =>
            /\ called[u] = {"stt"}
            /\ released[u] = (IF pc[u] = "done" THEN 1 ELSE 0)

\* An utterance in the output language was skipped and its task has ended.
C6_Skipped ==
    \E u \in Utterances :
        language[u] = "ru" /\ result[u] = "skipped" /\ pc[u] = "done"

\* Three utterances were submitted; the Translation call of the second failed
\* and every other stage call succeeded.
FailureScenario ==
    /\ submitted = 3
    /\ result[1] = "ok"
    /\ result[2] = "translation_error"
    /\ result[3] = "ok"

\* Both surviving utterances were played and every admission slot is free.
SurvivorsPlayed ==
    /\ {1, 3} \subseteq played
    /\ pipeline_semaphore = max_concurrent_batches

\* A send to the transport raised while utterance u was being emitted.
EmitAborted(u) == u \in Range(playOrder) /\ u # current /\ u \notin played

TransportFailed == \E u \in {1, 3} : EmitAborted(u)

\* C7 as stated: in that run utterances 1 and 3 are eventually played and the
\* admission gate is full again, whatever min_ready_chunks_before_start is
\* (as long as the transport takes the sends).
C7_AnyPrebuffer == FailureScenario ~> (SurvivorsPlayed \/ TransportFailed)

\* C7 (amended): the same, when min_ready_chunks_before_start is at most 2,
\* the number of utterances that become ready.
C7_SmallPrebuffer ==
    (FailureScenario /\ min_ready_chunks_before_start <= 2)
        ~> (SurvivorsPlayed \/ TransportFailed)

\* The run of the claim has ended as promised, with a threshold of exactly 2.
C7_Recovered ==
    /\ FailureScenario
    /\ min_ready_chunks_before_start = 2
    /\ SurvivorsPlayed

\* C8: a batch counts as played, and the loop moves on to the next one, only
\* when at least the batch's audio duration has passed since its emission.
C8_Pacing ==
    /\ slack >= 0
    /\ schedPc = "closing" => sinceEmit >= duration[current]

\* A second batch is being emitted after a first one of the longest duration
\* was played in full.
C8_SecondAfterFirst ==
    /\ schedPc = "emitting"
    /\ Len(playOrder) >= 2
    /\ playOrder[Len(playOrder) - 1] \in played
    /\ duration[current] = MaxDuration

\* C9: get_context returns at most window_size entries whose total length is
\* at most max_chars.
C9_ContextBounded ==
    /\ Len(lastContext) <= window_size
    /\ TotalChars(lastContext) <= max_chars

\* get_context returned a proper, non-empty part of a full buffer that was
\* over the budget.
C9_Trimmed ==
    /\ Len(buffer) = window_size
    /\ TotalChars(buffer) > max_chars
    /\ lastContext # <<>>
    /\ lastContext = GetContext(buffer)
    /\ Len(lastContext) < Len(buffer)

\* C10 as stated: the stored buffer has at most window_size entries and at
\* most max_chars characters after every mutation.
C10_StoredWithinBudget ==
    /\ Len(buffer) <= window_size
    /\ TotalChars(buffer) <= max_chars

\* C10 (amended): the stored buffer has at most window_size entries after
\* every mutation; its characters are bounded only in what get_context returns.
C10_StoredWithinWindow == Len(buffer) <= window_size

\* A full window whose stored characters exceed the budget.
C10_FullOverBudget ==
    /\ window_size = MaxWindow
    /\ Len(buffer) = window_size
    /\ TotalChars(buffer) > max_chars

\* ----------------------------------------- claims about the segmenter

\* A step in which process_audio handled an audio message.
AudioStep == audioCalls' # audioCalls

\* A step in which a frame reached the segmenter of the session.
FrameStep == AudioStep /\ session_active

\* The utterance is open once this frame is taken, and its age at this frame.
PhraseStart == IF phrase_start_time = None THEN now ELSE phrase_start_time
PhraseAge == now - PhraseStart

\* C11: while every frame has been classified as silence, the segmenter of
\* either profile is idle (no start time), has accumulated nothing, has
\* finalized no utterance and add_batch was never called.
C11_SilenceOnly ==
    pattern \in {"none", "silence"} =>
        /\ phrase_start_time = None
        /\ current_phrase = 0
        /\ finalized = 0
        /\ submitted = 0
        /\ recvPc = "receive"

\* Witness of C11: the latency profile has handled two or more silence frames.
C11_SilenceHeard ==
    /\ pattern = "silence"
    /\ silence_frames >= 2
    /\ stream_processor = "LiteralStreamProcessor"

\* C12: on uninterrupted speech a frame finalizes the utterance exactly when
\* the time elapsed since the first speech frame has reached the hard maximum,
\* never earlier, and it finalizes one utterance only.
C12_Step ==
    (FrameStep /\ pattern' = "speech") =>
        /\ (finalized' = finalized + 1) <=> (PhraseAge >= max_phrase_duration)
        /\ finalized' \in {finalized, finalized + 1}
C12_ForcedAtMaximum == [][C12_Step]_vars

\* Witness of C12: uninterrupted speech was cut once.
C12_SpeechCut ==
    /\ pattern = "speech"
    /\ finalized = 1
    /\ phrase_start_time = None

\* C13 as stated: speech that lasted the minimum duration and is followed by
\* silence only is finalized once, at the first frame at which the elapsed
\* time is at least the minimum and the silence counter has reached the
\* threshold, and the trailing silence finalizes nothing more.
C13_OriginalStep ==
    (FrameStep /\ pattern' = "break") =>
        /\ (finalized' = finalized + 1) <=>
               /\ phrase_start_time # None
               /\ PhraseAge >= min_chunk_duration
               /\ silence_frames + 1 >= SilenceThreshold
        /\ finalized' <= 1
C13_AtSilenceThreshold == [][C13_OriginalStep]_vars

\* C13 amended: ... at the first frame at which the elapsed time is at least
\* the minimum and either the silence counter has reached the threshold or
\* the elapsed time has reached the hard maximum; exactly one utterance is
\* finalized and the trailing silence finalizes nothing more.
C13_AmendedStep ==
    (FrameStep /\ pattern' = "break") =>
        /\ (finalized' = finalized + 1) <=>
               /\ phrase_start_time # None
               /\ PhraseAge >= min_chunk_duration
               /\ \/ silence_frames + 1 >= SilenceThreshold
                  \/ PhraseAge >= max_phrase_duration
        /\ finalized' <= 1
C13_AtBreakOrMaximum == [][C13_AmendedStep]_vars

\* Witness of C13: the utterance was closed during the silence and a further
\* silence frame was handled after that.
C13_ClosedInSilence ==
    /\ pattern = "break"
    /\ finalized = 1
    /\ phrase_start_time = None
    /\ silence_frames >= 1

\* -------------------------------------- claims about the orchestrator

\* The orchestrator is INACTIVE: no session, no batch queue, no segmenter and
\* no playback loop running.
Inactive ==
    /\ ~session_active
    /\ batch_queue = "None"
    /\ stream_processor = "None"
    /\ ~is_running
    /\ schedPc \in {"none", "stopped"}

\* C17: stop_session called while the orchestrator is inactive (a second time,
\* or before any start) raises nothing and changes nothing: the orchestrator
\* stays in the INACTIVE state the first call left.
C17_State == ~session_active => Inactive
C17_Step ==
    (stopCalls' > stopCalls /\ ~session_active) =>
        /\ recvPc' = "receive"
        /\ UNCHANGED <<orchVars, queueVars, taskVars, schedVars, ctxVars,
                       segVars>>
C17_StopIdempotent == [][C17_State' /\ C17_Step]_vars

\* Witness of C17: two stop calls have returned and a session was stopped.
C17_StoppedTwice ==
    /\ stopCalls >= 2
    /\ schedPc = "stopped"
    /\ ~session_active

\* C18: while the session is inactive, process_audio changes nothing: no frame
\* reaches a segmenter, no VAD counter moves, nothing is submitted.
C18_Step ==
    (AudioStep /\ ~session_active) =>
        UNCHANGED <<orchVars, recvPc, segVars, finalized, pattern, queueVars,
                    taskVars, schedVars, ctxVars>>
C18_InactiveFeedIsNoOp == [][C18_Step]_vars

\* Witness of C18: audio messages were handled, all of them outside a session,
\* some of them after the session was stopped or before it was started.
C18_FedWhileInactive ==
    /\ audioCalls >= 2
    /\ pattern = "none"
    /\ schedPc = "stopped"

\* ------------------------------- claims about hand-off, stop and teardown

\* The receive loop takes its next message: an audio frame (through the
\* segmenter or not) or a stop request.
ReceiveNext ==
    \/ \E u \in Utterances : AddBatch(u)
    \/ \E is_speech \in BOOLEAN : ReceiveAudio(is_speech)
    \/ StopSession

\* The hand-off of a finalized utterance waits for an admission slot.
HandoffBlocked == recvPc = "handoff" /\ pipeline_semaphore = 0

\* C14 as stated: while a hand-off is blocked in add_batch on the saturated
\* admission gate, the session can still receive and handle the next incoming
\* message (an audio frame or a stop request).
C14_ReceptionOpen == HandoffBlocked => ENABLED ReceiveNext

\* Every background task has ended (with a batch, a skip or a failure).
TasksFinished == \A u \in Utterances : pc[u] \in {"idle", "done"}

\* C15 as stated: once stop has completed and every background task has ended,
\* every admission slot acquired during the session has been released: the
\* gate has max_concurrent_batches free slots again.
C15_NoLeakAfterStop ==
    (schedPc = "stopped" /\ TasksFinished)
        => pipeline_semaphore = max_concurrent_batches

\* stop_session has returned and no session is active.
StopReturned == stopCalls > 0 /\ ~session_active

Emitting == schedPc \in {"emitting", "sleeping", "closing"}

\* C16: once stop has returned nothing is dequeued for emission and no
\* emission is under way, also when background tasks end after the stop and
\* put their batches on the ready queue.
C16_State == StopReturned => (~Emitting /\ current = 0)
C16_Step ==
    StopReturned =>
        /\ playOrder' = playOrder
        /\ batches_processed' = batches_processed
C16_SilentAfterStop == [][C16_State' /\ C16_Step]_vars

\* Witness of C16: after the stop (which emptied the context buffer) an
\* utterance went through translation and synthesis and waits on the queue.
C16_ReadyAfterStop ==
    /\ StopReturned
    /\ \E u \in Utterances :
          /\ TextOf(u) \in Range(buffer)
          /\ u \in Range(ready_queue)

\* C19 as stated: when the client disconnects while a session is active, the
\* session is eventually torn down: stop_session runs, session_active becomes
\* false and the playback loop is halted.
C19_TornDown ==
    (~connected /\ session_active)
        ~> (~session_active /\ schedPc = "stopped")

SomeStageFailed == ~AllStagesSucceed
SomeEmitAborted == \E u \in Utterances : EmitAborted(u)

\* All utterances were played, nothing waits and every slot is free.
Drained ==
    /\ batches_processed = NumUtterances
    /\ ready_queue = <<>>
    /\ pipeline_semaphore = max_concurrent_batches

\* C20: in a session that is kept active, once all N utterances have been
\* submitted (N is at least the prebuffer threshold), the drained state is
\* eventually reached, unless a stage call fails or skips an utterance or the
\* transport refuses a send.
C20_Drains ==
    (submitted = NumUtterances)
        ~> (Drained \/ SomeStageFailed \/ SomeEmitAborted)

\* Witness of C20: the drained state after a run without failures.
C20_AllDrained ==
    /\ Drained
    /\ AllStagesSucceed
    /\ played = Utterances
    /\ min_ready_chunks_before_start = DefaultPrebuffer

\* ------------------------------------------------------------ stage order

\* The STT call of u has returned a transcription that is to be translated.
SttReturned(u) ==
    /\ "stt" \in called[u]
    /\ pc[u] \notin {"stt", "notify"}
    /\ language[u] = "en"
    /\ result[u] \notin {"stt_error", "skipped", "notify_error"}

\* The translate() call of u has returned a translation.
TranslationReturned(u) ==
    /\ "translation" \in called[u]
    /\ pc[u] \notin {"translation", "wait_translation"}
    /\ result[u] # "translation_error"

\* The synthesize() call of u has returned audio.
TtsReturned(u) ==
    /\ "tts" \in called[u]
    /\ pc[u] = "done"
    /\ result[u] = "ok"

\* C21: for every utterance the Translation call is made only after its STT
\* call has returned successfully, the TTS call only after its Translation call
\* has returned successfully, and an utterance is on ready_queue (or was taken
\* from it) only after all three calls have returned in that order.
C21_StageOrder ==
    \A u \in Utterances :
        /\ "translation" \in called[u] => SttReturned(u)
        /\ "tts" \in called[u] => SttReturned(u) /\ TranslationReturned(u)
        /\ (u \in Range(ready_queue) \/ u \in Range(playOrder)) =>
               SttReturned(u) /\ TranslationReturned(u) /\ TtsReturned(u)

\* One utterance is queued after its three stages while another one is still
\* inside the translation call.
C21_QueuedAfterThreeStages ==
    \E u, v \in Utterances :
        /\ u \in Range(ready_queue)
        /\ called[u] = StageSet
        /\ pc[v] = "translation"
        /\ "tts" \notin called[v]

\* ------------------------------------------------------------- pipelining

\* C22: holding one stage gate never prevents another utterance from holding
\* a different one: with FIFO gates a task waits at a gate only while some
\* other task holds that very gate, whatever the other gates are doing; so
\* with three slots or more three utterances can be inside the STT, the
\* Translation and the TTS call at the same time.
C22_GatesIndependent ==
    fifoGates =>
        \A u \in Utterances : \A g \in StageSet :
            pc[u] = WaitPc[g] => gateHolder[g] \notin {0, u}

\* Three different utterances are inside the three collaborator calls.
C22_ThreeStagesBusy ==
    /\ max_concurrent_batches >= 3
    /\ \E u, v, w \in Utterances :
          /\ pc[u] = "stt"
          /\ pc[v] = "translation"
          /\ pc[w] = "tts"
          /\ gateHolder = [stt |-> u, translation |-> v, tts |-> w]

\* ------------------------------------------------- slot held until played

\* Utterance u, which reached ready_queue, gets its slot back in this step.
SlotReturned(u) == released'[u] > released[u] /\ result'[u] = "ok"

\* The slot of a batch is held while the batch is queued and while it is
\* being emitted.
C23_HeldUntilPlayback ==
    \A u \in Utterances :
        /\ u \in Range(ready_queue) => released[u] = 0
        /\ (u = current /\ schedPc \in {"emitting", "sleeping"}) =>
               released[u] = 0

\* C23 as stated: the slot of a batch that reached ready_queue is released
\* only after the duration-paced sleep of that batch has ended.
C23_Step == \A u \in Utterances : SlotReturned(u) => u \in played

C23_ReleasedOnlyAfterSleep == [][C23_Step]_vars

\* C23 as the code has it: the slot of a batch that reached ready_queue is
\* released only while that batch is in playback, never at enqueue or at
\* dequeue; before the end of its sleep only when a send of its emission
\* raised or when stop cancelled the playback loop.
C23_AmendedStep ==
    \A u \in Utterances :
        SlotReturned(u) =>
            /\ u = current
            /\ schedPc \in {"emitting", "sleeping", "closing"}
            /\ u \notin played => schedPc = "emitting" \/ schedPc' = "stopped"

C23_ReleasedInPlayback ==
    []C23_HeldUntilPlayback /\ [][C23_AmendedStep]_vars

\* A batch was played to the end of its sleep and then gave its slot back
\* while the next batch waits in the queue with its slot.
C23_ReleasedAfterSleep ==
    \E u \in played :
        /\ released[u] = 1
        /\ ready_queue # <<>>
        /\ schedPc # "stopped"

\* ------------------------------------------------ accumulation and the cut

\* An utterance is open once the frame of this step is taken: it was open
\* before, or the frame is speech and opens one.
OpenAtFrame == phrase_start_time # None \/ lastFrame' = "speech"

\* The silence counter as the classification of the frame of this step
\* leaves it.
SilenceAtFrame == IF lastFrame' = "silence" THEN silence_frames + 1 ELSE 0

\* The frame of this step closes the open utterance.
ClosesAtFrame == finalized' = finalized + 1

\* C24: while an utterance is open and younger than the minimum chunk
\* duration every frame, speech or silence, is appended to it and it is not
\* finalized, however long the run of silence.
C24_Step ==
    (FrameStep /\ OpenAtFrame /\ PhraseAge < min_chunk_duration) =>
        /\ current_phrase' = current_phrase + 1
        /\ finalized' = finalized
        /\ phrase_start_time' = PhraseStart

C24_AccumulatesBelowMinimum == [][C24_Step]_vars

\* A run of silence at least as long as the threshold lies inside an open
\* utterance younger than the minimum.
C24_SilenceRunKept ==
    /\ phrase_start_time # None
    /\ now - phrase_start_time < min_chunk_duration
    /\ lastFrame = "silence"
    /\ silence_frames >= 2
    /\ silence_frames >= SilenceThreshold
    /\ current_phrase = silence_frames + 1

\* C25: a frame taken by an open utterance that has reached the minimum
\* chunk duration finalizes it if and only if the utterance has reached the
\* hard maximum or the run of silence has reached the threshold; whenever the
\* maximum is reached the cut is the forced one, also when the silence
\* threshold is reached on the same frame.
C25_Step ==
    (FrameStep /\ OpenAtFrame /\ PhraseAge >= min_chunk_duration) =>
        /\ ClosesAtFrame <=>
               (PhraseAge >= max_phrase_duration
                \/ SilenceAtFrame >= SilenceThreshold)
        /\ lastCut' = IF ~ClosesAtFrame THEN "none"
                      ELSE IF PhraseAge >= max_phrase_duration THEN "forced"
                      ELSE "natural"

C25_CutRule == [][C25_Step]_vars

\* A silence frame that reaches the threshold arrives at the maximum: the
\* utterance is closed by the forced cut (a threshold of one frame is reached
\* by any silence frame).
C25_TieForced ==
    /\ lastCut = "forced"
    /\ lastFrame = "silence"
    /\ SilenceThreshold = 1
    /\ finalized = 1

\* C26: during a session the counters of the detector are reset by a
\* finalization and by nothing else: the frame that finalizes an utterance
\* (submitted or discarded as too short) leaves both counters at zero, no start
\* time and an empty accumulation; any other frame counts one up and zeroes
\* the other as the classification says; no other step touches them.
C26_Step ==
    /\ (FrameStep /\ ClosesAtFrame) =>
           /\ speech_frames' = 0
           /\ silence_frames' = 0
           /\ phrase_start_time' = None
           /\ current_phrase' = 0
    /\ (FrameStep /\ ~ClosesAtFrame) =>
           /\ lastFrame' = "speech" =>
                  speech_frames' = speech_frames + 1 /\ silence_frames' = 0
           /\ lastFrame' = "silence" =>
                  silence_frames' = silence_frames + 1 /\ speech_frames' = 0
    /\ (session_active /\ session_active' /\ ~AudioStep) =>
           UNCHANGED <<speech_frames, silence_frames>>

C26_ResetOncePerFinalization == [][C26_Step]_vars

\* An utterance too short to be submitted was finalized by the last frame and
\* the segmenter is idle with zeroed counters.
C26_ResetOnDiscard ==
    /\ session_active
    /\ lastCut # "none"
    /\ finalized = 1
    /\ submitted = 0
    /\ phrase_start_time = None
    /\ current_phrase = 0
    /\ speech_frames = 0
    /\ silence_frames = 0

\* add_batch is called once in this step: it admits the utterance or waits
\* for a slot.
AddBatchCalled ==
    \/ /\ submitted' = submitted + 1
       /\ pipeline_semaphore' = pipeline_semaphore - 1
    \/ /\ submitted' = submitted
       /\ recvPc' = "handoff"

\* C27: a finalized utterance is handed to add_batch, once, if and only if
\* it has at least min_samples samples; a shorter one is dropped without
\* touching the admission gate; a frame that finalizes nothing submits
\* nothing.
C27_Step ==
    FrameStep =>
        IF ClosesAtFrame /\ current_phrase + 1 >= min_samples
        THEN AddBatchCalled
        ELSE UNCHANGED <<submitted, pipeline_semaphore, processing_count,
                         recvPc>>

C27_SubmittedIffLongEnough == [][C27_Step]_vars

\* An utterance of exactly min_samples frames was submitted by the frame
\* that finalized it.
C27_SubmittedAtFloor ==
    /\ lastCut # "none"
    /\ finalized = 1
    /\ submitted = 1
    /\ audioCalls = min_samples
    /\ min_samples = MaxMinSamples
    /\ pipeline_semaphore = max_concurrent_batches - 1

\* ------------------------------------------------- get_context reads only

\* C28: a get_context call (the only step that changes what was last
\* returned) leaves the stored entries and their order as they were, also
\* when entries were trimmed from the front of the returned copy.
C28_Step == lastContext' # lastContext => buffer' = buffer

C28_GetLeavesBuffer == [][C28_Step]_vars

\* The returned copy lost its first entry to the budget and the stored buffer
\* still has it.
C28_TrimmedCopyOnly ==
    /\ Len(buffer) >= 2
    /\ TotalChars(buffer) > max_chars
    /\ lastContext = Tail(buffer)

\* ---------------------------------------------------- topic of a session

\* A start message that carries a topic is handled in this step.
TopicRequested == startRequest' # startRequest /\ startRequest' # "None"

\* C29: after a start request that carries a topic the session is active and
\* its batch queue holds that topic, which is the hint every translate() call
\* of the session is given.
C29_Step == TopicRequested => session_active' /\ topic' = startRequest'

C29_TopicReachesTranslation == [][C29_Step]_vars

\* ------------------------------------------------- state across sessions

\* start_session returns in this step on an orchestrator whose previous
\* session was stopped.
StartsAfterStop == schedPc = "stopped" /\ session_active'

\* What a new session starts with, the played-batch counter left aside.
FreshSession ==
    /\ buffer = <<>>
    /\ ready_queue = <<>>
    /\ processing_count = 0
    /\ pipeline_semaphore = max_concurrent_batches
    /\ schedPc = "buffering"
    /\ ~playback_started
    /\ phrase_start_time = None
    /\ current_phrase = 0
    /\ speech_frames = 0
    /\ silence_frames = 0

\* C30: a session started after a stop on the same orchestrator begins in
\* the initial state: an empty context buffer, an empty ready_queue, no task
\* in flight, a full admission gate, the playback loop waiting for the
\* prebuffer, an idle segmenter with zeroed counters, and a played-batch
\* counter of 0.
C30_Step == StartsAfterStop => FreshSession' /\ batches_processed' = 0

C30_NothingCrossesSessions == [][C30_Step]_vars

\* The same without the played-batch counter.
C30_FreshObjects == [][StartsAfterStop => FreshSession']_vars

\* ------------------------------------------------- stop during playback

\* stop_playback_loop cancels the loop in this step while a batch that was
\* taken from ready_queue has not finished its duration sleep.
CancelsInPlayback ==
    /\ schedPc \in {"emitting", "sleeping"}
    /\ schedPc' = "stopped"
    /\ current # 0

\* C31: when stop cancels the playback loop after a batch was dequeued and
\* before its duration sleep has finished, the slot of that batch is released
\* in the same step, and it is released once: it was held before and is never
\* released again.
C31_Step ==
    /\ CancelsInPlayback =>
           /\ released[current] = 0
           /\ released'[current] = 1
           /\ pipeline_semaphore' = pipeline_semaphore + 1
    /\ (cancelled # 0 /\ cancelled' = cancelled) =>
           released'[cancelled] = released[cancelled]

C31_ReleasedOnCancel == [][C31_Step]_vars

\* Stop has cancelled a batch before the end of its sleep and the background
\* tasks have gone on since: the slot of the batch was released once.
C31_CancelledMidPlayback ==
    /\ schedPc = "stopped"
    /\ cancelled # 0
    /\ cancelled \notin played
    /\ released[cancelled] = 1
    /\ \E u \in Utterances : u # cancelled /\ result[u] = "ok"

\* ------------------------------------------------- the two segmenters

\* C32: fed the same classifications at the same clock readings, with the
\* same minimum, maximum and silence thresholds, the LiteralStreamProcessor
\* and the StreamProcessor have finalized the same number of utterances after
\* every frame (they took the same decision on each) and are in the same
\* state: both idle or both open with the same start, the same accumulated
\* length and the same counters.
C32_SameStateMachine ==
    /\ twin.finalized = finalized
    /\ twin.phrase_start_time = phrase_start_time
    /\ twin.current_phrase = current_phrase
    /\ twin.speech_frames = speech_frames
    /\ twin.silence_frames = silence_frames

\* Both have closed one utterance at a pause and a second one at the maximum.
C32_BothCutTwice ==
    /\ finalized = 2
    /\ twin.finalized = 2
    /\ lastCut = "forced"
    /\ lastFrame = "speech"

\* ------------------------------------------- order under unfair gates

\* Two batches were dequeued for playback against their submission order.
PlayedOutOfOrder ==
    \E i, j \in 1..Len(playOrder) : i < j /\ playOrder[i] > playOrder[j]

\* C33: with every stage call successful, two utterances are played in the
\* opposite order to their submission only when the stage gates wake their
\* waiters in another order than arrival; with such gates that execution
\* exists.
C33_InversionNeedsUnfairGate ==
    (AllStagesSucceed /\ PlayedOutOfOrder) => ~fifoGates

\* Every stage call succeeded, the gates are not FIFO and a later utterance
\* was played before an earlier one.
C33_Inverted ==
    /\ ~fifoGates
    /\ \A u \in Utterances : result[u] = "ok"
    /\ PlayedOutOfOrder

\* ------------------------------------------------------ no over-release

\* C34: the admission gate never has more free slots than its capacity and
\* no utterance has its slot released twice, whatever mixture of successes,
\* skips, stage failures, send failures during playback and cancellations by
\* stop has happened.
C34_NeverOverReleased ==
    /\ pipeline_semaphore <= max_concurrent_batches
    /\ \A u \in Utterances : released[u] <= 1

\* A skip, a stage failure and a cancellation by stop have each released a
\* slot and the gate is exactly full.
C34_FullAfterMixedReleases ==
    /\ pipeline_semaphore = max_concurrent_batches
    /\ schedPc = "stopped"
    /\ cancelled # 0
    /\ \E u \in Utterances : result[u] = "skipped"
    /\ \E u \in Utterances : result[u] \in ErrorResults

\* -------------------------------------------------------- slot accounting

\* Admitted utterances whose task has neither released the slot nor queued a
\* batch.
InPipeline ==
    {u \in Utterances : u <= submitted /\ released[u] = 0 /\ result[u] # "ok"}

\* Batches taken from ready_queue whose slot is not yet released.
InPlayback == {u \in Range(playOrder) : released[u] = 0}

\* C35: while the playback loop is running, the slots taken from the gate
\* are exactly those of the utterances still in their task, of the batches on
\* ready_queue and of the batches dequeued and not yet released.
C35_SlotAccounting ==
    (is_running /\ schedPc \notin {"none", "stopped"}) =>
        max_concurrent_batches - pipeline_semaphore =
            Cardinality(InPipeline) + Len(ready_queue) + Cardinality(InPlayback)

\* The gate is saturated by one utterance in a stage, one batch on the queue
\* and one in its duration sleep.
C35_OneOfEach ==
    /\ is_running
    /\ pipeline_semaphore = 0
    /\ Cardinality(InPipeline) = 1
    /\ Len(ready_queue) = 1
    /\ Cardinality(InPlayback) = 1
    /\ schedPc = "sleeping"

\* ------------------------------------------------ admission is not starved

\* A submission waits for a slot of the saturated gate in a configuration
\* whose prebuffer threshold the gate can hold.
BlockedWithinCapacity ==
    /\ recvPc = "handoff"
    /\ min_ready_chunks_before_start <= max_concurrent_batches

\* C36: when min_ready_chunks_before_start <= max_concurrent_batches, every
\* stage call returns and the session is not stopped, a submission that waits
\* for a slot of the saturated gate is eventually admitted.
C36_BlockedIsAdmitted == BlockedWithinCapacity ~> (recvPc = "receive")

\* A submission waits while the gate is filled by ready batches alone and the
\* playback loop has not started yet: only the prebuffer threshold being
\* reached can free a slot.
C36_BlockedOnFullPrebuffer ==
    /\ BlockedWithinCapacity
    /\ schedPc = "buffering"
    /\ Len(ready_queue) = max_concurrent_batches
    /\ min_ready_chunks_before_start = max_concurrent_batches
    /\ max_concurrent_batches >= 2

\* ------------------------------------------------- prebuffer and capacity

\* A submission waits on the full gate, the playback loop still polls for
\* its prebuffer and no background task is left that could queue a batch or
\* release a slot.
PrebufferDeadlock ==
    /\ session_active
    /\ recvPc = "handoff"
    /\ pipeline_semaphore = 0
    /\ schedPc = "buffering"
    /\ ~PrebufferReached(Len(ready_queue))
    /\ \A u \in Utterances : pc[u] \in {"idle", "done"}

\* C37: whatever values min_ready_chunks_before_start and
\* max_concurrent_batches are configured with, that state is never reached.
C37_NoPrebufferDeadlock == ~PrebufferDeadlock

\* ------------------------------------------------------ one playback loop

\* A playback loop at position p is inside _play_batch.
InPlayBatch(p) == p \in {"emitting", "sleeping", "closing"}

\* C38: for every sequence of start_session, stop_session and process_audio
\* calls, start_session twice in a row included, at most one playback loop of
\* the orchestrator is running and emitting to the transport.
C38_OneLoopEmits == ~(InPlayBatch(orphan.schedPc) /\ InPlayBatch(schedPc))

\* ------------------------------------------- the translation section

\* The utterances whose texts are in the context sequence ctx.
SourcesOf(ctx) == {ctx[i][1] : i \in 1..Len(ctx)}

\* While u is inside the translation gate it is the holder of the gate, the
\* last snapshot holds texts of utterances whose translation has returned,
\* and neither the snapshot nor the buffer holds the text of u.
C39_SnapshotOfEarlier ==
    \A u \in Utterances :
        pc[u] = "translation" =>
            /\ gateHolder["translation"] = u
            /\ u \notin SourcesOf(lastContext)
            /\ u \notin SourcesOf(buffer)
            /\ \A v \in SourcesOf(lastContext) :
                   v \in Utterances /\ TranslationReturned(v)

\* A step that leaves u inside the translation gate takes no snapshot and
\* appends nothing (stop_session may clear the buffer); the step in which u
\* enters the gate takes the snapshot of the buffer as it is then.
C39_Step ==
    \A u \in Utterances :
        /\ pc[u] = "translation" /\ pc'[u] = "translation" =>
               /\ lastContext' = lastContext
               /\ buffer' = buffer \/ buffer' = <<>>
        /\ pc[u] # "translation" /\ pc'[u] = "translation" =>
               lastContext' = GetContext(buffer')

\* C39: the read-translate-append section of the translation stage is atomic
\* per utterance: between the context snapshot of an utterance and the append
\* of its own text no other utterance takes a snapshot or appends, so the
\* snapshot holds only texts of utterances translated earlier and never the
\* utterance's own text.
C39_TranslationSectionAtomic ==
    []C39_SnapshotOfEarlier /\ [][C39_Step]_vars

\* An utterance is inside the translation gate with a snapshot that holds an
\* earlier text, while another utterance waits for the gate.
C39_TranslatingWhileOneWaits ==
    \E u, v \in Utterances :
        /\ pc[u] = "translation"
        /\ pc[v] = "wait_translation"
        /\ lastContext # <<>>

\* ------------------------------------------------- the processed counter

\* The batches the playback loop has taken from ready_queue.
Dequeued == {playOrder[i] : i \in 1..Len(playOrder)}

\* The counter is the number of batches whose duration sleep has returned;
\* each of them passed the three stages and was taken from ready_queue, and a
\* batch that stop cancelled before the end of its sleep is not among them.
C40_CountsPlayed ==
    /\ batches_processed = Cardinality(played)
    /\ played \subseteq Dequeued
    /\ \A u \in played : result[u] = "ok"
    /\ \A u \in Utterances :
           result[u] \in ErrorResults \cup {"skipped", "notify_error"} =>
               u \notin Dequeued
    /\ \A i, j \in 1..Len(playOrder) : playOrder[i] = playOrder[j] => i = j

\* The counter moves only by one, only when the duration sleep of the batch
\* in playback returns after the full duration, and only for a batch that
\* was not counted before; a batch that leaves playback through a failed
\* send or through cancellation before that moment is never counted later.
C40_Step ==
    /\ batches_processed' # batches_processed =>
           /\ batches_processed' = batches_processed + 1
           /\ schedPc = "sleeping" /\ schedPc' = "closing"
           /\ sinceEmit >= duration[current]
           /\ current \notin played
           /\ played' = played \cup {current}
    /\ batches_processed' = batches_processed => played' = played
    /\ (schedPc \in {"emitting", "sleeping"} /\ schedPc' \notin {"emitting", "sleeping", "closing"}) =>
           batches_processed' = batches_processed
    /\ \A u \in Dequeued : (u # current /\ u \notin played) => u \notin played'

\* C40: in every reachable state batches_processed is the number of batches
\* whose emission and full duration sleep completed in the playback loop: a
\* batch that was skipped, failed in a stage, met a failed send during
\* emission or was cancelled before the end of its sleep is never counted, and
\* no batch is counted twice.
C40_CounterIsPlayedBatches == []C40_CountsPlayed /\ [][C40_Step]_vars

\* One batch was counted, one was cancelled in playback, and one utterance
\* was skipped or failed in a stage.
C40_CountedCancelledAndLost ==
    /\ batches_processed = 1
    /\ cancelled # 0
    /\ cancelled \notin played
    /\ \E u \in Utterances :
           result[u] \in ErrorResults \cup {"skipped"}

\* One batch was counted after another met a failed send during emission.
C40_CountedAfterFailedSend ==
    /\ batches_processed = 1
    /\ schedPc = "closing"
    /\ \E u \in Dequeued : u # current /\ u \notin played

====
